---- MODULE Spec2Model ----
(***************************************************************************)
(* Model of the trending-paper loader: the aggregation functions of        *)
(* data_processing.py, the retrying fetcher, the summary resolver, the     *)
(* per-date cache store of utils.py and the batch loops of app.py.         *)
(*                                                                         *)
(* Text values are modelled as sequences of characters where the code      *)
(* looks inside them (dates, upvote counts, URLs) and as TLA+ strings      *)
(* where it only compares them for equality (ids, titles, summaries).     *)
(***************************************************************************)
EXTENDS Integers, Sequences, FiniteSets, TLC

VARIABLES
    papers,         \* deduplicate_papers: the argument
    dd_i,           \* deduplicate_papers: number of loop iterations done
    unique_papers,  \* deduplicate_papers: the dict, as its entries in insertion order
    dd_out,         \* deduplicate_papers: the returned list (empty before the return)
    dd_done,        \* deduplicate_papers: TRUE once it has returned
    rq,             \* request_with_retry: the frame of the call in progress (or last made)
    files,          \* the data directory: for every date, whether <date>.json exists and its text
    app,            \* app.py: the script run in progress (range, date lists, loop position, outcome)
    ing,            \* fetch_daily_papers_from_hf: the frame of the call in progress
    hist,           \* history of the batch in progress, for stating the claims
    sm,             \* get_paper_summary: the frame of the call in progress
    st,             \* the cache store exercised call by call (save, load, load loop)
    disp            \* the display step: the list handed to a sort and the list it returned

aggVars == <<papers, dd_i, unique_papers, dd_out, dd_done>>
appVars == <<files, app, ing, hist>>
callVars == <<sm, st, disp>>
vars == <<aggVars, rq, appVars, callVars>>

\* ------------------------------------------------------------------ bounds
MaxPapers == 3      \* longest list handed to deduplicate_papers
MaxDays == 2        \* number of consecutive dates of the model
MaxRetries == 3     \* largest retry count request_with_retry is called with
MaxArticles == 2    \* most listing blocks in one listing document
MaxBatches == 2     \* most button presses (batches) in one behaviour
MaxBlocks == 3      \* most listing blocks of the document of a single ingestion
MaxSaves == 2       \* most save_data calls when the store is exercised call by call
MaxSortDays == 3    \* number of dates among the records handed to a sort
MaxFilterPapers == 2 \* length of the list handed to filter_papers
MaxQueryLen == 3    \* length of the query text
SigBits == 3        \* significand bits of a float and of a random draw (53 in CPython)

\* The dates of the model, as days of one month; they start at the 9th so that
\* the zero padding of the date text matters.
Days == 9 .. (9 + MaxDays - 1)

\* ------------------------------------------------------------------ text helpers
\* strftime("%Y-%m-%d"): zero-padded fields. The year and month are the same
\* for every date of the model and are left out; the day keeps its two digits.
DateStr(day) == <<day \div 10, day % 10>>

\* Python's str comparison a > b on two texts (lexicographic, a proper prefix is smaller).
RECURSIVE StrGt(_, _)
StrGt(a, b) ==
    IF a = <<>> THEN FALSE
    ELSE IF b = <<>> THEN TRUE
    ELSE IF Head(a) # Head(b) THEN Head(a) > Head(b)
    ELSE StrGt(Tail(a), Tail(b))

\* Characters are numbers: 0 .. 9 are the digits, larger numbers other characters.
\* str.isdigit() on a text of the model: non-empty and every character a digit.
IsDigits(s) == Len(s) > 0 /\ \A k \in 1 .. Len(s) : s[k] \in 0 .. 9

\* int(text) for a text of digits.
RECURSIVE DigitsValue(_)
DigitsValue(s) ==
    IF s = <<>> THEN 0 ELSE 10 * DigitsValue(SubSeq(s, 1, Len(s) - 1)) + s[Len(s)]

\* ------------------------------------------------------------------ data_processing.py
\* get_numeric_upvotes: int(paper.get("upvotes", 0)), 0 on ValueError/TypeError.
get_numeric_upvotes(paper) ==
    IF "upvotes" \notin DOMAIN paper THEN 0
    ELSE IF IsDigits(paper.upvotes) THEN DigitsValue(paper.upvotes) ELSE 0

\* p.get("id") or p.get("title"): the empty text is falsy.
PaperKey(p) == IF p.id # "" THEN p.id ELSE p.title

\* line 53: the replacement test of deduplicate_papers.
ReplacesPrev(p, prev_p) ==
    StrGt(p.date, prev_p.date) \/ get_numeric_upvotes(p) > get_numeric_upvotes(prev_p)

\* Position of key in the dict's entries, 0 when absent.
DictIndex(entries, key) ==
    IF \E k \in 1 .. Len(entries) : entries[k].key = key
    THEN CHOOSE k \in 1 .. Len(entries) : entries[k].key = key
    ELSE 0

\* Mutant of DedupIteration: a replacement deletes the entry and inserts it anew.
DedupIterationReinserts(entries, p) ==
    LET key == PaperKey(p)
        at == DictIndex(entries, key)
        Others(e) == e.key # key
    IN  IF key = "" THEN entries
        ELSE IF at = 0 THEN Append(entries, [key |-> key, value |-> p])
        ELSE IF ReplacesPrev(p, entries[at].value)
             THEN Append(SelectSeq(entries, Others), [key |-> key, value |-> p])
             ELSE entries

\* Mutant of DedupIteration: without `if not key: continue`.
DedupIterationKeepsUnkeyed(entries, p) ==
    LET key == PaperKey(p)
        at == DictIndex(entries, key)
    IN  IF at = 0 THEN Append(entries, [key |-> key, value |-> p])
        ELSE IF ReplacesPrev(p, entries[at].value)
             THEN [entries EXCEPT ![at] = [key |-> key, value |-> p]]
             ELSE entries

\* One iteration of the for loop of deduplicate_papers on record p.
DedupIteration(entries, p) ==
    LET key == PaperKey(p)
        at == DictIndex(entries, key)
    IN  IF key = "" THEN entries
        ELSE IF at = 0 THEN Append(entries, [key |-> key, value |-> p])
        ELSE IF ReplacesPrev(p, entries[at].value)
             THEN [entries EXCEPT ![at] = [key |-> key, value |-> p]]
             ELSE entries

\* list(unique_papers.values())
DictValues(entries) == [k \in 1 .. Len(entries) |-> entries[k].value]

\* lines 39-54: the for loop run over the list L, from the dict entries.
RECURSIVE DedupFold(_, _)
DedupFold(entries, L) ==
    IF L = <<>> THEN entries ELSE DedupFold(DedupIteration(entries, Head(L)), Tail(L))

\* Mutant of deduplicate_papers: the loop runs over papers[1:].
deduplicate_papersFromSecond(L) ==
    IF L = <<>> THEN <<>> ELSE DictValues(DedupFold(<<>>, Tail(L)))

\* deduplicate_papers(papers), as one function.
deduplicate_papers(L) == DictValues(DedupFold(<<>>, L))

\* sorted(iterable, key=..., reverse=...): a stable sort. `before` says for two
\* positions of the list whether the key of the first orders strictly before the
\* key of the second (with reverse: after it); an element goes in front of the
\* first element it orders strictly before, hence behind those of equal key.
RECURSIVE InsertIndex(_, _, _)
InsertIndex(order, i, before) ==
    IF order = <<>> THEN <<i>>
    ELSE IF before[i][Head(order)] THEN <<i>> \o order
    ELSE <<Head(order)>> \o InsertIndex(Tail(order), i, before)
RECURSIVE SortIndices(_, _)
SortIndices(n, before) ==
    IF n = 0 THEN <<>> ELSE InsertIndex(SortIndices(n - 1, before), n, before)
sorted(L, before) == [r \in 1 .. Len(L) |-> L[SortIndices(Len(L), before)[r]]]

\* list[::-1]
Reversed(L) == [r \in 1 .. Len(L) |-> L[Len(L) + 1 - r]]

\* Mutant of sort_papers_by_date: sorted ascending, then the list reversed.
sort_papers_by_dateThenReversed(L, reverse) ==
    LET ascending == sorted(L, [i \in 1 .. Len(L) |-> [j \in 1 .. Len(L) |->
                                   StrGt(L[j].date, L[i].date)]])
    IN  IF reverse THEN Reversed(ascending) ELSE ascending

\* sort_papers_by_date(papers, reverse): sorted(papers, key=lambda x: x["date"], reverse=reverse)
sort_papers_by_date(L, reverse) ==
    sorted(L, [i \in 1 .. Len(L) |-> [j \in 1 .. Len(L) |->
                  IF reverse THEN StrGt(L[i].date, L[j].date)
                  ELSE StrGt(L[j].date, L[i].date)]])

\* Mutant of sort_papers_by_upvotes: sorted ascending, then the list reversed.
sort_papers_by_upvotesThenReversed(L, reverse) ==
    LET ascending == sorted(L, [i \in 1 .. Len(L) |-> [j \in 1 .. Len(L) |->
                                   get_numeric_upvotes(L[i]) < get_numeric_upvotes(L[j])]])
    IN  IF reverse THEN Reversed(ascending) ELSE ascending

\* sort_papers_by_upvotes(papers, reverse): sorted(papers, key=get_numeric_upvotes, reverse=reverse)
sort_papers_by_upvotes(L, reverse) ==
    sorted(L, [i \in 1 .. Len(L) |-> [j \in 1 .. Len(L) |->
                  IF reverse THEN get_numeric_upvotes(L[i]) > get_numeric_upvotes(L[j])
                  ELSE get_numeric_upvotes(L[i]) < get_numeric_upvotes(L[j])]])

\* Letters of a text are numbers: 1, 2, 3 are "l", "m", "s", the numbers ten
\* above them their capitals, 40 is a character without case.
\* str.lower() on one character and on a text.
LowerChar(c) == IF c \in 11 .. 13 THEN c - 10 ELSE c
Lower(text) == [k \in 1 .. Len(text) |-> LowerChar(text[k])]

\* needle in hay: the needle occurs as a contiguous part of the hay.
In(needle, hay) ==
    \E o \in 0 .. (Len(hay) - Len(needle)) :
        \A k \in 1 .. Len(needle) : hay[o + k] = needle[k]

\* p.get(field, ""): the field's text, the empty text when the record has none.
GetText(p, field) == IF field \in DOMAIN p THEN p[field] ELSE <<>>

\* The loop of filter_papers from position i on, with the list built so far.
RECURSIVE FilterLoop(_, _, _, _)
FilterLoop(L, query_lower, i, filtered) ==
    IF i > Len(L) THEN filtered
    ELSE LET title == Lower(GetText(L[i], "title"))
             summary == Lower(GetText(L[i], "summary"))
         IN  FilterLoop(L, query_lower, i + 1,
                        IF In(query_lower, title) \/ In(query_lower, summary)
                        THEN Append(filtered, L[i]) ELSE filtered)

\* Mutant of filter_papers: the query is compared as typed.
filter_papersQueryAsTyped(L, query) ==
    IF query = <<>> THEN L ELSE FilterLoop(L, query, 1, <<>>)

\* filter_papers(papers, query)
filter_papers(L, query) ==
    IF query = <<>> THEN L ELSE FilterLoop(L, Lower(query), 1, <<>>)

\* The records deduplicate_papers is applied to.
PaperIds == {"", "a"}
PaperTitles == {"", "t"}
UpvoteTexts == {<<5>>, <<1, 0>>, <<40>>}   \* "5", "10" and a non-numeric text
AggPapers ==
    [id : PaperIds, title : PaperTitles, date : {DateStr(d) : d \in Days},
     upvotes : UpvoteTexts]

SeqsUpTo(S, n) == UNION {[1 .. k -> S] : k \in 0 .. n}



\* ------------------------------------------------------------------ the remote source
\* A listing block (<article>) of a listing document: its first <h3> (has_h3, h3),
\* its first <a href> (has_a, href: the path, as its segments), and the texts of
\* its first digit-only <div> and <span> (empty when there is none).
ArtTitled == [has_h3 |-> TRUE, h3 |-> "t", has_a |-> TRUE, href |-> <<"/papers/", "a">>,
              div |-> <<1>>, span |-> <<>>]
ArtUntitled == [has_h3 |-> FALSE, h3 |-> "", has_a |-> TRUE, href |-> <<"/papers/", "a">>,
                div |-> <<>>, span |-> <<2>>]
ArtNoLink == [has_h3 |-> TRUE, h3 |-> "a", has_a |-> FALSE, href |-> <<>>,
              div |-> <<>>, span |-> <<>>]
Articles == {ArtTitled, ArtUntitled, ArtNoLink}

\* An HTML page: its <article> blocks and whether its <main> holds a paragraph
\* of more than 100 characters.
ListingPages == [articles : SeqsUpTo(Articles, MaxArticles), abstract : {FALSE}]
DetailPages == [articles : {<<>>}, abstract : BOOLEAN]
EmptyPage == [articles |-> <<>>, abstract |-> FALSE]

\* config.BASE_URL is read by utils.py and set nowhere in config.py: the listings
\* endpoint, taken from the "Source fetch targets" of the interface description.
BASE_URL == <<"https", ":", "//", "huggingface.co", "/papers">>

\* f"{config.BASE_URL}?date={date_str}"
ListingUrl(day) == [text |-> BASE_URL \o <<"?date=">>, date |-> DateStr(day)]
\* f"https://huggingface.co{link_tag['href']}"
DetailUrl(href) == [text |-> <<"https", ":", "//", "huggingface.co">> \o href, date |-> <<>>]

IsListingUrl(url) == url.date # <<>>

\* What one requests.get(url, timeout=...) can end with: an exception of requests
\* (exc), or a response with a status code and, for 200, a page.
RATE_LIMITED == 429
GetOutcomes(url) ==
    {[exc |-> "", status_code |-> 200, content |-> c] :
        c \in IF IsListingUrl(url) THEN ListingPages ELSE DetailPages}
    \cup {[exc |-> "", status_code |-> sc, content |-> EmptyPage] : sc \in {RATE_LIMITED, 500}}
    \cup {[exc |-> e, status_code |-> 0, content |-> EmptyPage] :
            e \in {"ConnectionError", "Timeout"}}

\* ------------------------------------------------------------------ utils.request_with_retry
DEFAULT_RETRIES == 3
DEFAULT_RETRY_DELAY == 180

\* The frame of a call: url and retries are the arguments, i the loop variable of
\* `for i in range(retries)` (the number of iterations left behind), status how
\* the call stands: "loop", or ended with "response" (content), "None", or
\* the name of the exception raised. caller says who made the call.
\* gets, n429, waits and last are history: the GETs issued, the 429 responses
\* received, the time.sleep calls made, and what the last GET ended with.
\* delay is the third argument; slept is history too: the attempt and the
\* wait_time of the backoff sleeps, kept by the steps that draw the jitter.
NoRequest ==
    [url |-> [text |-> <<>>, date |-> <<>>], retries |-> 0, i |-> 0, status |-> "idle",
     content |-> EmptyPage, caller |-> "", gets |-> 0, n429 |-> 0, waits |-> 0,
     last |-> "", delay |-> DEFAULT_RETRY_DELAY, slept |-> <<>>]

NewRequest(url, retries, caller) ==
    [NoRequest EXCEPT !.url = url, !.retries = retries, !.status = "loop",
                      !.caller = caller]

\* Durations are counted in units of 2^-SigBits seconds. A float holds SigBits
\* significant bits; random.random() draws a multiple of 2^-SigBits below 1.
Pow2(n) == 2 ^ n
Seconds(n) == n * Pow2(SigBits)
RandomDraws == 0 .. (Pow2(SigBits) - 1)

RECURSIVE BitLength(_)
BitLength(x) == IF x = 0 THEN 0 ELSE 1 + BitLength(x \div 2)

\* The float nearest to the exact value x, ties to the even significand.
FloatRound(x) ==
    IF BitLength(x) <= SigBits THEN x
    ELSE LET unit == Pow2(BitLength(x) - SigBits)
             q == x \div unit
             rest == x % unit
         IN  IF 2 * rest > unit \/ (2 * rest = unit /\ q % 2 = 1)
             THEN (q + 1) * unit ELSE q * unit

\* Mutant of wait_time: the delay is not doubled.
wait_timeFixedDelay(delay, i, u) == FloatRound(Seconds(delay) + u)

\* line 113: wait_time = delay * (2**i) + random.uniform(0, 1), u the draw.
wait_time(delay, i, u) == FloatRound(Seconds(delay * Pow2(i)) + u)

\* The frame after an iteration, the sleep of line 115 recorded when one was made.
RequestIterationTimed(r, nxt, u) ==
    IF nxt.waits > r.waits
    THEN [nxt EXCEPT !.slept = Append(@, [i |-> r.i, wait_time |-> wait_time(r.delay, r.i, u)])]
    ELSE nxt

RequestEnded(r) == r.status \notin {"idle", "loop"}
RequestRaised(r) == RequestEnded(r) /\ r.status \notin {"response", "None"}

\* Mutant of RequestExcept: every exception is retried while attempts are left.
RequestExceptRetryAll(r, exc, sc) ==
    IF r.i < r.retries - 1
    THEN [r EXCEPT !.i = @ + 1]
    ELSE [r EXCEPT !.status = IF exc = "HTTPError" /\ sc = RATE_LIMITED
                               THEN "RateLimitError" ELSE exc]

\* lines 121-132: the except clause, for exception exc carrying status code sc.
RequestExcept(r, exc, sc) ==
    IF exc = "HTTPError" /\ sc = RATE_LIMITED
    THEN IF r.i < r.retries - 1
         THEN [r EXCEPT !.i = @ + 1]
         ELSE [r EXCEPT !.status = "RateLimitError"]
    ELSE [r EXCEPT !.status = exc]

\* Mutant of RequestIteration: no sleep after the 429 of the last attempt.
RequestIterationNoLastWait(r, out) ==
    LET got == [r EXCEPT !.gets = @ + 1,
                         !.last = IF out.exc # "" THEN "error"
                                  ELSE IF out.status_code = RATE_LIMITED THEN "429"
                                  ELSE IF out.status_code >= 400 THEN "error"
                                  ELSE "ok",
                         !.n429 = IF out.exc = "" /\ out.status_code = RATE_LIMITED
                                  THEN @ + 1 ELSE @]
    IN  IF out.exc # "" THEN RequestExcept(got, out.exc, 0)
        ELSE IF out.status_code = RATE_LIMITED
             THEN [got EXCEPT !.waits = IF r.i < r.retries - 1 THEN @ + 1 ELSE @, !.i = @ + 1]
        ELSE IF out.status_code >= 400 /\ out.status_code < 600
             THEN RequestExcept(got, "HTTPError", out.status_code)
        ELSE [got EXCEPT !.status = "response", !.content = out.content]

\* lines 110-132: one iteration of the loop, the GET ending with out.
RequestIteration(r, out) ==
    LET got == [r EXCEPT !.gets = @ + 1,
                         !.last = IF out.exc # "" THEN "error"
                                  ELSE IF out.status_code = RATE_LIMITED THEN "429"
                                  ELSE IF out.status_code >= 400 THEN "error"
                                  ELSE "ok",
                         !.n429 = IF out.exc = "" /\ out.status_code = RATE_LIMITED
                                  THEN @ + 1 ELSE @]
    IN  IF out.exc # "" THEN RequestExcept(got, out.exc, 0)
        ELSE IF out.status_code = RATE_LIMITED
             THEN [got EXCEPT !.waits = @ + 1, !.i = @ + 1]        \* sleep; continue
        ELSE IF out.status_code >= 400 /\ out.status_code < 600    \* raise_for_status()
             THEN RequestExcept(got, "HTTPError", out.status_code)
        ELSE [got EXCEPT !.status = "response", !.content = out.content]


\* request_with_retry run to its end: the frames a call started as r can end in.
RECURSIVE RequestRuns(_)
RequestRuns(r) ==
    IF r.status # "loop" THEN {r}
    ELSE IF r.i >= r.retries THEN {[r EXCEPT !.status = "None"]}          \* line 133
    ELSE UNION {RequestRuns(RequestIteration(r, out)) : out \in GetOutcomes(r.url)}

\* ------------------------------------------------------------------ utils.load_data / save_data
\* json.dump writes every record as its key/value pairs in the dict's order;
\* json.load builds the dicts back from the pairs.
FieldOrder == <<"title", "summary", "link", "date", "id", "thumbnail", "upvotes">>
JsonDump(data) ==
    [k \in 1 .. Len(data) |-> [f \in 1 .. Len(FieldOrder) |-> <<FieldOrder[f], data[k][FieldOrder[f]]>>]]
JsonLoad(text) ==
    [k \in 1 .. Len(text) |->
        [name \in {text[k][f][1] : f \in 1 .. Len(text[k])} |->
            LET f == CHOOSE g \in 1 .. Len(text[k]) : text[k][g][1] = name IN text[k][f][2]]]

\* A file of the data directory: whether it exists, its text, and how many
\* times it was written (history).
\* torn: the file was opened for writing and the write did not complete, so
\* that its text is no JSON document.
NoFile == [exists |-> FALSE, text |-> <<>>, writes |-> 0, torn |-> FALSE]

\* Mutant of load_data: `return []` for a date without file.
load_dataEmptyWhenAbsent(fs, day) ==
    IF fs[day].exists THEN [found |-> TRUE, data |-> JsonLoad(fs[day].text)]
    ELSE [found |-> TRUE, data |-> <<>>]

\* load_data(date_str): None (found = FALSE) when the file does not exist.
load_data(fs, day) ==
    IF fs[day].exists THEN [found |-> TRUE, data |-> JsonLoad(fs[day].text)]
    ELSE [found |-> FALSE, data |-> <<>>]

\* `if daily_data:` on what load_data returned: None and [] are falsy.
Truthy(loaded) == loaded.found /\ loaded.data # <<>>

\* Mutant of save_data: the file is opened with "a".
save_dataAppending(fs, day, data) ==
    [fs EXCEPT ![day] = [exists |-> TRUE, text |-> @.text \o JsonDump(data),
                         writes |-> @.writes + 1, torn |-> FALSE]]

\* save_data(date_str, data): open(file_path, "w") and json.dump.
save_data(fs, day, data) ==
    [fs EXCEPT ![day] = [exists |-> TRUE, text |-> JsonDump(data), writes |-> @.writes + 1,
                         torn |-> FALSE]]

\* save_data raising OSError: at os.makedirs or open (line 76 or 80), the file
\* left as it was, or at the write of line 81, the file left torn.
save_dataOSError(fs, day, torn) ==
    IF torn
    THEN [fs EXCEPT ![day] = [exists |-> TRUE, text |-> <<>>, writes |-> @.writes + 1,
                              torn |-> TRUE]]
    ELSE fs

\* ------------------------------------------------------------------ utils.get_paper_summary
\* urlparse(url): the scheme is what stands before ":", the netloc what follows "//".
UrlScheme(url) == IF Len(url) >= 2 /\ url[2] = ":" THEN url[1] ELSE ""
UrlAfterScheme(url) == IF UrlScheme(url) # "" THEN SubSeq(url, 3, Len(url)) ELSE url
PathSegments == {"/papers", "/papers/", "?date="}
UrlNetloc(url) ==
    LET rest == UrlAfterScheme(url)
    IN  IF Len(rest) >= 2 /\ rest[1] = "//" /\ rest[2] \notin PathSegments THEN rest[2] ELSE ""

\* Mutant of validate_url: any([scheme, netloc]) in place of all([...]).
validate_urlAnyPart(url) == url # <<>> /\ (UrlScheme(url) # "" \/ UrlNetloc(url) # "")

\* _validate_url: TRUE when it returns, FALSE when it raises InvalidURLError.
validate_url(url) == url # <<>> /\ UrlScheme(url) # "" /\ UrlNetloc(url) # ""

\* The texts get_paper_summary returns, by the line that returns them:
\* 175 "NO_URL", 181 "INVALID_URL", 197 "ABSTRACT" (the paragraph found),
\* 199 "NOT_FOUND", 200 "RETRY_LIMIT", 203 "FETCH_ERROR".
\* lines 174-187: up to the call of request_with_retry.
SummaryEntry(paper_url) ==
    IF paper_url = <<>> THEN [kind |-> "return", text |-> "NO_URL"]
    ELSE IF ~validate_url(paper_url) THEN [kind |-> "return", text |-> "INVALID_URL"]
    ELSE [kind |-> "fetch", text |-> ""]

\* config.RATE_LIMIT_DELAY = 0.5 seconds, in milliseconds.
RATE_LIMIT_DELAY_MS == 500

\* Mutant of ThrottlePause: the time.sleep of line 185 left out.
ThrottlePauseSkipped(s) == [s EXCEPT !.pc = "request"]

\* line 185: time.sleep(config.RATE_LIMIT_DELAY), then on to the request.
ThrottlePause(s) == [s EXCEPT !.pauses = Append(@, RATE_LIMIT_DELAY_MS), !.pc = "request"]

\* Mutant of SummaryExit: without the except clause of line 201 an exception
\* of request_with_retry leaves get_paper_summary.
SummaryExitPropagating(r) ==
    IF r.status = "response"
    THEN [kind |-> "return", text |-> IF r.content.abstract THEN "ABSTRACT" ELSE "NOT_FOUND"]
    ELSE IF r.status = "None" THEN [kind |-> "return", text |-> "RETRY_LIMIT"]
    ELSE [kind |-> "raise", text |-> ""]

\* lines 187-203: from the end r of request_with_retry to the return.
SummaryExit(r) ==
    IF r.status = "response"
    THEN [kind |-> "return", text |-> IF r.content.abstract THEN "ABSTRACT" ELSE "NOT_FOUND"]
    ELSE IF r.status = "None" THEN [kind |-> "return", text |-> "RETRY_LIMIT"]
    ELSE [kind |-> "return", text |-> "FETCH_ERROR"]       \* except Exception

\* get_paper_summary(paper_url): what the call can end with.
get_paper_summary(paper_url) ==
    IF SummaryEntry(paper_url).kind = "return" THEN {SummaryEntry(paper_url)}
    ELSE {SummaryExit(r) :
            r \in RequestRuns(NewRequest([text |-> paper_url, date |-> <<>>],
                                         DEFAULT_RETRIES, "detail"))}

\* ------------------------------------------------------------------ utils: listing extraction
\* _extract_upvotes: the first digit-only <div>, else the first digit-only <span>, else "0".
extract_upvotes(article) ==
    IF IsDigits(article.div) THEN article.div
    ELSE IF IsDigits(article.span) THEN article.span
    ELSE <<0>>

\* link_tag["href"].split("/")[-1]
HrefId(href) == href[Len(href)]

\* lines 326-352 of fetch_daily_papers_from_hf: the record of a titled article.
ArticleLink(article) == IF article.has_a THEN <<"https", ":", "//", "huggingface.co">> \o article.href ELSE <<>>
ArticleId(article) == IF article.has_a THEN HrefId(article.href) ELSE ""
\* Mutant of ArticleRecord: the date of the first day in place of the date asked for.
ArticleRecordFirstDay(article, day, summary) ==
    [title |-> article.h3,
     summary |-> summary,
     link |-> ArticleLink(article),
     date |-> DateStr(9),
     id |-> ArticleId(article),
     thumbnail |-> <<"https://cdn-thumbnails.huggingface.co/social-thumbnails/papers/",
                     ArticleId(article), ".png">>,
     upvotes |-> extract_upvotes(article)]

ArticleRecord(article, day, summary) ==
    [title |-> article.h3,
     summary |-> summary,
     link |-> ArticleLink(article),
     date |-> DateStr(day),
     id |-> ArticleId(article),
     thumbnail |-> <<"https://cdn-thumbnails.huggingface.co/social-thumbnails/papers/",
                     ArticleId(article), ".png">>,
     upvotes |-> extract_upvotes(article)]

\* lines 249-259 of get_upvotes_map: the dict built from the listing blocks.
MapPut(m, key, value) == [x \in (DOMAIN m) \cup {key} |-> IF x = key THEN value ELSE m[x]]
EmptyMap == <<>>
RECURSIVE BuildUpvotesMap(_)
BuildUpvotesMap(articles) ==
    IF articles = <<>> THEN EmptyMap
    ELSE LET front == BuildUpvotesMap(SubSeq(articles, 1, Len(articles) - 1))
             article == articles[Len(articles)]
         IN  IF ~article.has_a THEN front
             ELSE MapPut(front, HrefId(article.href), extract_upvotes(article))

\* lines 240-265: what get_upvotes_map does with the end r of request_with_retry
\* (responded is history: whether the request returned a response).
UpvotesMapResult(r) ==
    IF RequestRaised(r)                                           \* UpvoteFetchError
    THEN [kind |-> "raise", map |-> EmptyMap, responded |-> FALSE]
    ELSE IF r.status = "None" THEN [kind |-> "return", map |-> EmptyMap, responded |-> FALSE]
    ELSE [kind |-> "return", map |-> BuildUpvotesMap(r.content.articles), responded |-> TRUE]

\* get_upvotes_map(target_date): what the call can end with.
get_upvotes_map(day) ==
    {UpvotesMapResult(r) :
        r \in RequestRuns(NewRequest(ListingUrl(day), DEFAULT_RETRIES, "upvotes"))}

\* ------------------------------------------------------------------ app.py
\* daterange(start, end)
RECURSIVE daterange(_, _)
daterange(start, end) == IF start > end THEN <<>> ELSE <<start>> \o daterange(start + 1, end)

\* lines 113-120: the load loop.
LoadedDates(fs, start, end) ==
    LET Loaded(d) == Truthy(load_data(fs, d)) IN SelectSeq(daterange(start, end), Loaded)
MissingDates(fs, start, end) ==
    LET Missing(d) == ~Truthy(load_data(fs, d)) IN SelectSeq(daterange(start, end), Missing)

\* Mutant of UpdateUpvotes: the records are matched by identity key (id, else title).
UpdateUpvotesByKey(daily_data, upvotes_map) ==
    [k \in 1 .. Len(daily_data) |->
        IF PaperKey(daily_data[k]) \in DOMAIN upvotes_map
        THEN [daily_data[k] EXCEPT !.upvotes = upvotes_map[PaperKey(daily_data[k])]]
        ELSE daily_data[k]]

\* lines 138-142: the update loop over the loaded records.
UpdateUpvotes(daily_data, upvotes_map) ==
    [k \in 1 .. Len(daily_data) |->
        IF daily_data[k].id \in DOMAIN upvotes_map
        THEN [daily_data[k] EXCEPT !.upvotes = upvotes_map[daily_data[k].id]]
        ELSE daily_data[k]]
Updated(daily_data, upvotes_map) ==
    \E k \in 1 .. Len(daily_data) : daily_data[k].id \in DOMAIN upvotes_map

\* Mutant of RefreshFiles: no `if upvotes_map:` and no `if updated:`; a record
\* without a fetched count gets "0".
RefreshFilesUnguarded(fs, day, upvotes_map) ==
    LET daily_data == load_data(fs, day)
    IN  IF ~Truthy(daily_data) THEN fs
        ELSE save_data(fs, day,
                 [k \in 1 .. Len(daily_data.data) |->
                     [daily_data.data[k] EXCEPT !.upvotes =
                         IF daily_data.data[k].id \in DOMAIN upvotes_map
                         THEN upvotes_map[daily_data.data[k].id] ELSE <<0>>]])

\* lines 133-144: the data directory after the refresh of day with upvotes_map.
RefreshFiles(fs, day, upvotes_map) ==
    IF DOMAIN upvotes_map = {} THEN fs
    ELSE LET daily_data == load_data(fs, day)
         IN  IF ~Truthy(daily_data) THEN fs
             ELSE IF Updated(daily_data.data, upvotes_map)
                  THEN save_data(fs, day, UpdateUpvotes(daily_data.data, upvotes_map))
                  ELSE fs

\* Mutant of SkipsBlock: a block without a link is skipped too.
SkipsBlockWithoutLink(article) == ~article.has_h3 \/ ~article.has_a

\* utils 321-323: `if not title_tag: continue`.
SkipsBlock(article) == ~article.has_h3

\* Mutant of IngestLoopOver: `return results` inside the loop body.
IngestLoopOverEarly(g) == g.i >= 1 \/ g.i >= Len(g.articles)

\* utils 316: the loop over the blocks has run through all of them.
IngestLoopOver(g) == g.i >= Len(g.articles)

\* Mutant of IngestFiles: the new records are added to those of the file.
IngestFilesMerging(fs, day, daily_papers) ==
    IF daily_papers # <<>> THEN save_dataAppending(fs, day, daily_papers) ELSE fs

\* Mutant of IngestFiles: without `if daily_papers:`.
IngestFilesUnguarded(fs, day, daily_papers) == save_data(fs, day, daily_papers)

\* lines 192-194 and 223-224: the data directory after an ingestion returned daily_papers.
IngestFiles(fs, day, daily_papers) ==
    IF daily_papers # <<>> THEN save_data(fs, day, daily_papers) ELSE fs

\* Mutant of BatchDates: the refresh loop too runs over the whole range.
BatchDatesWholeRange(a) ==
    IF a.mode = "missing" THEN a.missing_dates ELSE daterange(a.start_date, a.end_date)

\* The dates the batch loop of a mode iterates over (lines 129, 175, 217).
BatchDates(a) ==
    IF a.mode = "upvote" THEN a.loaded_dates
    ELSE IF a.mode = "missing" THEN a.missing_dates
    ELSE daterange(a.start_date, a.end_date)

\* Mutant of StopOnError: the error is shown and the loop moves to the next date.
StopOnErrorNextDate(a) == [a EXCEPT !.k = @ + 1, !.report = "error"]

\* Mutant of StopOnError: the error is shown and the loop goes on (no st.stop()).
StopOnErrorContinue(a) == [a EXCEPT !.k = @ + 1]

\* except Exception as e: st.error(...); st.stop(): the script run ends, with the
\* error shown for the date of the iteration.
StopOnError(a) == [a EXCEPT !.phase = "idle", !.report = "error"]

\* The end of an iteration without exception: on to the next date.
NextDate(a) == [a EXCEPT !.k = @ + 1]

\* Mutant of SaveExcept: the exception of save_data is passed over.
SaveExceptPassedOver(a) == NextDate(a)

\* app 195-197, 225-227: save_data raised inside the try of the iteration.
SaveExcept(a) == StopOnError(a)

\* ------------------------------------------------------------------ initial values
\* callback: whether a progress_callback was passed to the call.
NoIngest == [active |-> FALSE, day |-> 0, articles |-> <<>>, i |-> 0, results |-> <<>>,
             callback |-> FALSE]

\* History of the batch in progress: the dates whose operation was started, the
\* dates whose listing fetch raised, the dates whose listing fetch returned
\* None, the date last started and its file as it was then, and for a refresh
\* that got a response its date (else 0) and the mapping fetched; progress is
\* the fractions the progress callback of the last ingestion was called with,
\* unsaved the dates whose save_data raised, writes0 the number of writes of
\* every file when the button was pressed.
NoHist == [attempted |-> {}, raised |-> {}, none |-> {}, day |-> 0, pre |-> NoFile,
           refreshed |-> 0, map |-> <<>>, progress |-> <<>>, unsaved |-> {},
           writes0 |-> [d \in Days |-> 0]]

AppIdle ==
    /\ files = [d \in Days |-> NoFile]
    /\ app = [phase |-> "idle", mode |-> "", start_date |-> 9, end_date |-> 9,
              loaded_dates |-> <<>>, missing_dates |-> <<>>, k |-> 0,
              report |-> "none", batches |-> 0]
    /\ ing = NoIngest
    /\ hist = NoHist

\* The frame of a get_paper_summary call: the argument, the position (pc), the
\* text returned, and as history the throttle pauses (line 185) made.
NoSummary == [paper_url |-> <<>>, pc |-> "idle", text |-> "", pauses |-> <<>>]

\* The store exercised call by call: the position, the arguments of the last
\* save_data call (day, data), the data directory before it (before), whether
\* the call before this one was that save (fresh), the argument and the result
\* of the last load_data call (lday, loaded), the range of the last load loop
\* and its two lists, and the number of save_data calls made.
NoStore == [pc |-> "start", day |-> 0, data |-> <<>>, before |-> [d \in Days |-> NoFile],
            fresh |-> FALSE,
            lday |-> 0, loaded |-> [found |-> FALSE, data |-> <<>>],
            start_date |-> 0, end_date |-> 0, loaded_dates |-> <<>>, missing_dates |-> <<>>,
            saves |-> 0]

\* The display step: nothing sorted yet.
NoDisplay == [pc |-> "idle", papers |-> <<>>, reverse |-> TRUE, query |-> <<>>, out |-> <<>>]

CallIdle ==
    /\ sm = NoSummary
    /\ st = NoStore
    /\ disp = NoDisplay

\* ------------------------------------------------------------------ deduplicate_papers, step by step
AggIdle ==
    /\ papers = <<>>
    /\ dd_i = 0
    /\ unique_papers = <<>>
    /\ dd_out = <<>>
    /\ dd_done = FALSE

DedupInit ==
    /\ rq = NoRequest
    /\ AppIdle
    /\ CallIdle
    /\ papers \in SeqsUpTo(AggPapers, MaxPapers)
    /\ dd_i = 0
    /\ unique_papers = <<>>
    /\ dd_out = <<>>
    /\ dd_done = FALSE

\* for p in papers: ...
DedupLoop ==
    /\ ~dd_done
    /\ dd_i < Len(papers)
    /\ unique_papers' = DedupIteration(unique_papers, papers[dd_i + 1])
    /\ dd_i' = dd_i + 1
    /\ UNCHANGED <<papers, dd_out, dd_done, rq, appVars, callVars>>

\* return list(unique_papers.values())
DedupReturn ==
    /\ ~dd_done
    /\ dd_i = Len(papers)
    /\ dd_out' = DictValues(unique_papers)
    /\ dd_done' = TRUE
    /\ UNCHANGED <<papers, dd_i, unique_papers, rq, appVars, callVars>>

NextDedup == DedupLoop \/ DedupReturn

SpecDedup == DedupInit /\ [][NextDedup]_vars

\* ------------------------------------------------------------------ request_with_retry, step by step
\* for i in range(retries): one more iteration.
RequestAttempt ==
    /\ rq.status = "loop"
    /\ rq.i < rq.retries
    /\ \E out \in GetOutcomes(rq.url) : rq' = RequestIteration(rq, out)
    /\ UNCHANGED <<aggVars, st, disp>>

\* line 133: the loop is over, return None.
RequestExhausted ==
    /\ rq.status = "loop"
    /\ rq.i >= rq.retries
    /\ rq' = [rq EXCEPT !.status = "None"]
    /\ UNCHANGED <<aggVars, st, disp>>

FetchInit ==
    /\ AggIdle
    /\ AppIdle
    /\ CallIdle
    /\ \E day \in Days, n \in 0 .. MaxRetries, detail \in BOOLEAN :
          rq = NewRequest(IF detail THEN DetailUrl(ArtTitled.href) ELSE ListingUrl(day),
                          n, "direct")

NextFetch ==
    \/ RequestAttempt /\ UNCHANGED <<appVars, sm>>
    \/ RequestExhausted /\ UNCHANGED <<appVars, sm>>

SpecFetch == FetchInit /\ [][NextFetch]_vars


\* ------------------------------------------------------------------ the application, step by step
\* The date of the iteration in progress of the batch loop.
CurrentDate == BatchDates(app)[app.k + 1]

\* A script run: the range is chosen, the load loop (lines 109-120) runs and the
\* button of `mode` is pressed.
Press(mode) ==
    /\ app.phase = "idle"
    /\ app.batches < MaxBatches
    /\ \E start \in Days, end \in Days :
          /\ start <= end
          /\ LET loaded == LoadedDates(files, start, end)
                 missing == MissingDates(files, start, end)
             IN  /\ \A d \in start .. end : ~files[d].torn     \* else json.load raises at line 115
                 /\ IF mode = "missing" THEN missing # <<>> ELSE loaded # <<>>
                 /\ app' = [phase |-> "batch", mode |-> mode, start_date |-> start,
                            end_date |-> end, loaded_dates |-> loaded,
                            missing_dates |-> missing, k |-> 0, report |-> "running",
                            batches |-> app.batches + 1]
    /\ hist' = [NoHist EXCEPT !.writes0 = [d \in Days |-> files[d].writes]]
    /\ rq' = NoRequest
    /\ UNCHANGED <<files, ing, aggVars, callVars>>

\* lines 123-127: "latest upvotes" button.
PressUpvoteUpdate == Press("upvote")
\* lines 164-173: "fetch the missing dates" button.
PressFetchMissing == Press("missing")
\* lines 208-215: "re-fetch the whole range" button.
PressRefetch == Press("refetch")

AtLoopHead == app.phase = "batch" /\ ~ing.active /\ app.k < Len(BatchDates(app))

\* The history once the operation of `day` has been started and its listing
\* fetch has ended as `fetched` ("response", "None" or "raise"), and once an
\* ingestion has ended without exception (the file as it was is then forgotten).
Started(h, day, fs, fetched) ==
    [h EXCEPT !.attempted = @ \cup {day}, !.day = day, !.pre = fs[day],
              !.refreshed = 0, !.map = <<>>, !.progress = <<>>,
              !.raised = IF fetched = "raise" THEN @ \cup {day} ELSE @,
              !.none = IF fetched = "None" THEN @ \cup {day} ELSE @]
Finished(h) == [h EXCEPT !.pre = NoFile]

\* lines 150-151, 202-204, 230-232: the loop is over, success is shown, st.rerun().
BatchSuccess ==
    /\ app.phase = "batch"
    /\ ~ing.active
    /\ app.k = Len(BatchDates(app))
    /\ app' = [app EXCEPT !.phase = "idle", !.report = "success"]
    /\ UNCHANGED <<files, ing, hist, rq, aggVars, callVars>>

\* The next date of an ingestion loop (app 175-191, 217-222): fetch_daily_papers_from_hf
\* is called and its listing request runs to one of its ends.
IngestTurn == AtLoopHead /\ app.mode \in {"missing", "refetch"}
ListingRuns == RequestRuns(NewRequest(ListingUrl(CurrentDate), DEFAULT_RETRIES, "listing"))

\* utils 360-362 and app 195-197 / 225-227: the listing request raised; the
\* exception is wrapped, reaches the loop's except clause and stops the run.
ListingRaised ==
    /\ IngestTurn
    /\ \E r \in ListingRuns : RequestRaised(r)
    /\ app' = StopOnError(app)
    /\ hist' = Started(hist, CurrentDate, files, "raise")
    /\ UNCHANGED <<files, ing, rq, aggVars, callVars>>

\* utils 305-307 and app 192 / 223: the listing request returned None, [] is
\* returned to the loop.
ListingNone ==
    /\ IngestTurn
    /\ \E r \in ListingRuns : r.status = "None"
    /\ files' = IngestFiles(files, CurrentDate, <<>>)
    /\ app' = NextDate(app)
    /\ hist' = Finished(Started(hist, CurrentDate, files, "None"))
    /\ UNCHANGED <<ing, rq, aggVars, callVars>>

\* utils 309-314: the listing request returned a response, the document is
\* parsed into its blocks.
ListingParsed ==
    /\ IngestTurn
    /\ \E r \in ListingRuns :
          /\ r.status = "response"
          /\ ing' = [NoIngest EXCEPT !.active = TRUE, !.day = CurrentDate,
                                     !.articles = r.content.articles]
    /\ hist' = Started(hist, CurrentDate, files, "response")
    /\ UNCHANGED <<files, app, rq, aggVars, callVars>>

\* A fraction passed to the callback, as numerator and denominator.
\* Mutant of LoopFraction: the fraction of the blocks done after this one.
LoopFractionAfterBlock(i, total_articles) == [num |-> i + 1, den |-> total_articles]

\* line 318: i / total_articles if total_articles > 0 else 0
LoopFraction(i, total_articles) ==
    IF total_articles > 0 THEN [num |-> i, den |-> total_articles] ELSE [num |-> 0, den |-> 1]

\* line 355: 1.0
FinalFraction == [num |-> 1, den |-> 1]

\* lines 317-318, 354-355: if progress_callback: progress_callback(fraction)
ProgressCall(h, g, fraction) ==
    IF g.callback THEN [h EXCEPT !.progress = Append(@, fraction)] ELSE h

\* utils 316-352: one iteration of the loop over the blocks, get_paper_summary
\* included; were get_paper_summary to raise, the except clause of line 360
\* would end the ingestion and the run.
ArticleLoop ==
    /\ ing.active
    /\ ~IngestLoopOver(ing)
    /\ hist' = ProgressCall(hist, ing, LoopFraction(ing.i, Len(ing.articles)))
    /\ LET article == ing.articles[ing.i + 1]
       IN  IF SkipsBlock(article)
           THEN /\ ing' = [ing EXCEPT !.i = @ + 1]
                /\ app' = app
           ELSE \E summary \in get_paper_summary(ArticleLink(article)) :
                   IF summary.kind = "return"
                   THEN /\ ing' = [ing EXCEPT !.i = @ + 1,
                                      !.results = Append(@, ArticleRecord(article, ing.day,
                                                                          summary.text))]
                        /\ app' = app
                   ELSE /\ ing' = NoIngest
                        /\ app' = StopOnError(app)
    /\ UNCHANGED <<files, rq, aggVars, callVars>>

\* utils 354-358 and app 192-194 / 223-224: the results are returned and saved.
FetchReturned ==
    /\ ing.active
    /\ IngestLoopOver(ing)
    /\ files' = IngestFiles(files, ing.day, ing.results)
    /\ app' = NextDate(app)
    /\ ing' = NoIngest
    /\ hist' = Finished(ProgressCall(hist, ing, FinalFraction))
    /\ UNCHANGED <<rq, aggVars, callVars>>

\* utils 354-358 and app 192-197 / 223-227: the results are returned, they are
\* not empty and save_data raises OSError.
SaveFailed ==
    /\ ing.active
    /\ IngestLoopOver(ing)
    /\ ing.results # <<>>
    /\ \E torn \in BOOLEAN : files' = save_dataOSError(files, ing.day, torn)
    /\ app' = SaveExcept(app)
    /\ ing' = NoIngest
    /\ hist' = [ProgressCall(hist, ing, FinalFraction) EXCEPT !.unsaved = @ \cup {ing.day}]
    /\ UNCHANGED <<rq, aggVars, callVars>>

\* The next date of the refresh loop (app 129-132): get_upvotes_map is called
\* and runs to one of its ends.
RefreshTurn == AtLoopHead /\ app.mode = "upvote"

\* utils 263-265 and app 145-147: get_upvotes_map raised UpvoteFetchError.
UpvotesRaised ==
    /\ RefreshTurn
    /\ \E m \in get_upvotes_map(CurrentDate) : m.kind = "raise"
    /\ app' = StopOnError(app)
    /\ hist' = Started(hist, CurrentDate, files, "raise")
    /\ UNCHANGED <<files, ing, rq, aggVars, callVars>>

\* app 133-148: get_upvotes_map returned, the cached records are updated and saved.
UpvotesReturned ==
    /\ RefreshTurn
    /\ \E m \in get_upvotes_map(CurrentDate) :
          /\ m.kind = "return"
          /\ files' = RefreshFiles(files, CurrentDate, m.map)
          /\ hist' = IF m.responded
                     THEN [Started(hist, CurrentDate, files, "response")
                              EXCEPT !.refreshed = CurrentDate, !.map = m.map]
                     ELSE Started(hist, CurrentDate, files, "None")
    /\ app' = NextDate(app)
    /\ UNCHANGED <<ing, rq, aggVars, callVars>>

Init == AggIdle /\ rq = NoRequest /\ AppIdle /\ CallIdle

Next ==
    \/ PressUpvoteUpdate \/ PressFetchMissing \/ PressRefetch
    \/ BatchSuccess
    \/ ListingRaised \/ ListingNone \/ ListingParsed
    \/ ArticleLoop \/ FetchReturned
    \/ UpvotesRaised \/ UpvotesReturned

Spec == Init /\ [][Next]_vars

\* ------------------------------------------------------------------ claims
InputWithKey(key) == {k \in 1 .. Len(papers) : PaperKey(papers[k]) = key}

\* C1: for every input of deduplicate_papers and every identity key in it, the
\* record kept for the key has the latest date among the input records of that
\* key, and the highest numeric upvotes among those of that latest date.
C1_LatestDateThenUpvotes ==
    dd_done =>
        \A e \in 1 .. Len(dd_out) :
            \A k \in InputWithKey(PaperKey(dd_out[e])) :
                /\ ~StrGt(papers[k].date, dd_out[e].date)
                /\ papers[k].date = dd_out[e].date =>
                       get_numeric_upvotes(papers[k]) <= get_numeric_upvotes(dd_out[e])

\* C2: a call with retries >= 1 whose every attempt received the rate-limit
\* status ends by raising RateLimitError (never by returning, never by another
\* error).
C2_ExhaustionRaisesRateLimitError ==
    (RequestEnded(rq) /\ rq.retries >= 1 /\ rq.n429 = rq.gets)
        => rq.status = "RateLimitError"

\* C3: within one call a further GET is issued only right after a 429 response,
\* at most `retries` GETs are issued, and any other failure of a GET ends the
\* call at once with that error raised and no further GET.
C3_RetryOnlyOnRateLimit ==
    [][/\ rq'.gets \in {rq.gets, rq.gets + 1}
       /\ rq'.gets = rq.gets + 1 =>
              /\ rq.gets = 0 \/ rq.last = "429"
              /\ rq'.gets <= rq.retries
              /\ rq'.last = "error" =>
                     rq'.status \in {"HTTPError", "ConnectionError", "Timeout"}
       /\ RequestRaised(rq) => rq'.gets = rq.gets]_vars

\* C3 witness: an error raised on a retry that followed a rate-limit response.
C3_Witness ==
    rq.status \in {"HTTPError", "ConnectionError", "Timeout"} /\ rq.gets >= 2 /\ rq.n429 >= 1

IngestMode == app.mode \in {"missing", "refetch"}
TitledCount(articles) == Cardinality({k \in 1 .. Len(articles) : articles[k].has_h3})
SeqRange(seq) == {seq[k] : k \in 1 .. Len(seq)}

C5_RemainingDatesStillProcessed ==
    (app.phase = "idle" /\ app.report = "error")
        => hist.attempted = SeqRange(BatchDates(app))

\* C5 as amended: a fetch failure (an exception of the listing fetch) for one
\* date is reported as an error for that date and ends the batch there: no
\* later date of the batch is processed.
C5_FetchFailureEndsBatch ==
    /\ hist.raised # {} => (app.phase = "idle" /\ app.report = "error")
    /\ app.report = "error" =>
          /\ app.phase = "idle"
          /\ app.k < Len(BatchDates(app))
          /\ hist.raised = {CurrentDate}
          /\ hist.attempted = {BatchDates(app)[j] : j \in 1 .. app.k + 1}

\* C5 witness: a batch over two dates stopped by the failure of its first date.
C5_Witness ==
    /\ app.report = "error"
    /\ Len(BatchDates(app)) = 2
    /\ app.k = 0
    /\ hist.attempted = {BatchDates(app)[1]}

\* C6: a refresh batch in which the listing fetch of some date failed (raised,
\* or used up its retries on rate-limit responses) never reports success.
C6_RefreshFetchFailureSurfaced ==
    (app.mode = "upvote" /\ app.report = "success") => hist.raised \cup hist.none = {}

\* C7: when the fetch step of the refresh of a date fails, the file of the date
\* is as it was before the refresh.
C7_FailedRefreshKeepsFile ==
    (app.mode = "upvote" /\ hist.day \in hist.raised \cup hist.none)
        => files[hist.day] = hist.pre

\* C7 witness: a refresh whose fetch returned nothing, for a date with a file.
C7_Witness ==
    /\ app.mode = "upvote"
    /\ hist.day \in hist.none
    /\ files[hist.day].exists

\* The records of the refreshed date before and after the refresh.
RefreshedBefore == JsonLoad(hist.pre.text)
RefreshedAfter == load_data(files, hist.refreshed).data

\* C8 as claimed: after a successful refresh with mapping M the file holds the
\* same records in the same order, a record whose identity key (id, else title)
\* is in M has upvotes M[key], every other record and field is unchanged.
C8_RefreshByIdentityKey ==
    (app.mode = "upvote" /\ hist.refreshed # 0) =>
        /\ files[hist.refreshed].exists
        /\ Len(RefreshedAfter) = Len(RefreshedBefore)
        /\ \A k \in 1 .. Len(RefreshedBefore) :
              RefreshedAfter[k] =
                  IF PaperKey(RefreshedBefore[k]) \in DOMAIN hist.map
                  THEN [RefreshedBefore[k] EXCEPT
                            !.upvotes = hist.map[PaperKey(RefreshedBefore[k])]]
                  ELSE RefreshedBefore[k]

\* C8 as amended: the same, with the records matched by their id field alone.
C8_RefreshById ==
    (app.mode = "upvote" /\ hist.refreshed # 0) =>
        /\ files[hist.refreshed].exists
        /\ Len(RefreshedAfter) = Len(RefreshedBefore)
        /\ \A k \in 1 .. Len(RefreshedBefore) :
              RefreshedAfter[k] =
                  IF RefreshedBefore[k].id \in DOMAIN hist.map
                  THEN [RefreshedBefore[k] EXCEPT !.upvotes = hist.map[RefreshedBefore[k].id]]
                  ELSE RefreshedBefore[k]

\* C8 witness: a refresh that changed the upvotes of one record and left a
\* record without a fetched count as it was.
C8_Witness ==
    /\ app.mode = "upvote"
    /\ hist.refreshed # 0
    /\ \E k \in 1 .. Len(RefreshedBefore) :
          RefreshedAfter[k].upvotes # RefreshedBefore[k].upvotes
    /\ \E k \in 1 .. Len(RefreshedBefore) : RefreshedBefore[k].id \notin DOMAIN hist.map

\* C9: a refresh batch does nothing for a date of the range that has no cache
\* file: no file is created, nothing is fetched or updated for it, and no
\* failure is reported for it.
C9_RefreshWithoutFileIsNoOp ==
    app.mode = "upvote" =>
        \A d \in SeqRange(daterange(app.start_date, app.end_date)) \ SeqRange(app.loaded_dates) :
            /\ ~files[d].exists
            /\ d \notin hist.attempted
            /\ d \notin hist.raised

\* C9 witness: a refresh batch that succeeded over a range with a date without file.
C9_Witness ==
    /\ app.mode = "upvote"
    /\ app.report = "success"
    /\ \E d \in SeqRange(daterange(app.start_date, app.end_date)) : ~files[d].exists

\* The links get_paper_summary is tried on, and the texts it may return.
SummaryLinks ==
    {<<>>,
     <<"huggingface.co", "/papers/", "a">>,
     <<"https", ":", "/papers/", "a">>,
     <<"//", "huggingface.co", "/papers/", "a">>,
     <<"https", ":", "//", "huggingface.co", "/papers/", "a">>,
     <<"https", ":", "//", "huggingface.co", "/papers/", "b">>,
     <<"http", ":", "//", "huggingface.co", "/papers/", "a">>,
     <<"http", ":", "//", "example.org", "/papers/", "a">>}
SummaryTexts ==
    {"NO_URL", "INVALID_URL", "ABSTRACT", "NOT_FOUND", "RETRY_LIMIT", "FETCH_ERROR"}
SummaryAlwaysReturns ==
    \A link \in SummaryLinks :
        \A summary \in get_paper_summary(link) :
            summary.kind = "return" /\ summary.text \in SummaryTexts

SummaryInit ==
    /\ AggIdle
    /\ AppIdle
    /\ rq = NoRequest
    /\ st = NoStore
    /\ disp = NoDisplay
    /\ \E link \in SummaryLinks : sm = [NoSummary EXCEPT !.paper_url = link, !.pc = "entry"]

\* lines 174-181: the empty link and the validation.
SummaryCheck ==
    /\ sm.pc = "entry"
    /\ LET entry == SummaryEntry(sm.paper_url)
       IN  sm' = IF entry.kind = "return"
                 THEN [sm EXCEPT !.pc = "returned", !.text = entry.text]
                 ELSE [sm EXCEPT !.pc = "throttle"]
    /\ UNCHANGED <<aggVars, rq, appVars, st, disp>>

\* lines 185-187: the pause, then request_with_retry is called.
SummaryThrottle ==
    /\ sm.pc = "throttle"
    /\ sm' = ThrottlePause(sm)
    /\ rq' = NewRequest([text |-> sm.paper_url, date |-> <<>>], DEFAULT_RETRIES, "detail")
    /\ UNCHANGED <<aggVars, appVars, st, disp>>

\* lines 188-203: request_with_retry has ended.
SummaryReturn ==
    /\ sm.pc = "request"
    /\ RequestEnded(rq)
    /\ LET exit == SummaryExit(rq)
       IN  sm' = [sm EXCEPT !.pc = IF exit.kind = "return" THEN "returned" ELSE "raised",
                            !.text = exit.text]
    /\ UNCHANGED <<aggVars, rq, appVars, st, disp>>

NextSummary ==
    \/ SummaryCheck
    \/ SummaryThrottle
    \/ sm.pc = "request" /\ RequestAttempt /\ UNCHANGED <<appVars, sm>>
    \/ sm.pc = "request" /\ RequestExhausted /\ UNCHANGED <<appVars, sm>>
    \/ SummaryReturn

SpecSummary == SummaryInit /\ [][NextSummary]_vars

\* A link that is empty or lacks the scheme or the host.
NotAbsoluteUrl(url) == url = <<>> \/ UrlScheme(url) = "" \/ UrlNetloc(url) = ""

\* C11: for an empty link, or a link without scheme or without host,
\* get_paper_summary returns a placeholder; no GET is issued, no request is
\* started and the throttle pause is not made.
C11_InvalidLinkShortCircuits ==
    (sm.pc # "idle" /\ NotAbsoluteUrl(sm.paper_url)) =>
        /\ rq = NoRequest
        /\ sm.pauses = <<>>
        /\ sm.pc \in {"entry", "returned"}
        /\ sm.pc = "returned" =>
               sm.text = IF sm.paper_url = <<>> THEN "NO_URL" ELSE "INVALID_URL"

\* C11 witness: a link with a scheme and no host answered with the placeholder.
C11_Witness ==
    /\ sm.pc = "returned"
    /\ sm.text = "INVALID_URL"
    /\ UrlScheme(sm.paper_url) # ""
    /\ rq.gets = 0

\* C12: the first GET of a detail page comes after exactly one throttle pause of
\* the configured delay, and the call makes no second one, however many
\* rate-limit backoffs the request goes through.
C12_ThrottleBeforeDetailFetch ==
    /\ Len(sm.pauses) <= 1
    /\ (rq.status # "idle" \/ rq.gets >= 1) =>
           /\ sm.pauses = <<RATE_LIMIT_DELAY_MS>>
           /\ rq.caller = "detail"
           /\ rq.url.text = sm.paper_url

\* C12 witness: a detail fetch that was rate-limited, backed off and went on,
\* with its one throttle pause.
C12_Witness ==
    /\ sm.pauses = <<RATE_LIMIT_DELAY_MS>>
    /\ rq.gets >= 2
    /\ rq.waits >= 1

\* ------------------------------------------------------------------ one ingestion, step by step
\* fetch_daily_papers_from_hf called by the missing-dates loop for a single
\* date, at line 312: the listing request has returned and the document is parsed.
IngestInit ==
    /\ AggIdle
    /\ CallIdle
    /\ rq = NoRequest
    /\ files = [d \in Days |-> NoFile]
    /\ app = [phase |-> "batch", mode |-> "missing", start_date |-> 9, end_date |-> 9,
              loaded_dates |-> <<>>, missing_dates |-> <<9>>, k |-> 0,
              report |-> "running", batches |-> 1]
    /\ \E articles \in SeqsUpTo(Articles, MaxBlocks), callback \in BOOLEAN :
          ing = [NoIngest EXCEPT !.active = TRUE, !.day = 9, !.articles = articles,
                                 !.callback = callback]
    /\ hist = Started(NoHist, 9, [d \in Days |-> NoFile], "response")

NextIngest == ArticleLoop \/ FetchReturned \/ BatchSuccess

SpecIngest == IngestInit /\ [][NextIngest]_vars

\* The blocks of a document that have a title, in document order.
TitledBlocks(articles) == LET HasTitle(a) == a.has_h3 IN SelectSeq(articles, HasTitle)

\* The records emitted so far are those of the titled blocks gone through.
EmittedFor(g, blocks) ==
    /\ Len(g.results) = Len(TitledBlocks(blocks))
    /\ \A k \in 1 .. Len(g.results) :
          g.results[k] = ArticleRecord(TitledBlocks(blocks)[k], g.day, g.results[k].summary)

\* C13: an ingestion emits one record per titled block and none for an untitled
\* one, in document order, going on after an untitled block; the file saved for
\* the date holds exactly these records (nothing is saved when there are none).
C13_OneRecordPerTitledBlock ==
    [][/\ ing.active => EmittedFor(ing, SubSeq(ing.articles, 1, ing.i))
       /\ (ing.active /\ ~ing'.active) =>
             /\ app'.report # "error"
             /\ EmittedFor(ing, ing.articles)
             /\ IF TitledBlocks(ing.articles) # <<>>
                THEN load_data(files', ing.day) = [found |-> TRUE, data |-> ing.results]
                ELSE files' = files]_vars

\* C13 witness: three blocks gone through, one of the first two without a title,
\* two records emitted.
C13_Witness ==
    /\ ing.active
    /\ Len(ing.articles) = 3
    /\ ing.i = 3
    /\ Len(ing.results) = 2
    /\ \E k \in 1 .. 2 : ~ing.articles[k].has_h3

\* ------------------------------------------------------------------ the cache store, call by call
\* The lists fetch_daily_papers_from_hf can return for a date ([] included:
\* lines 307 and 358).
FetchedRecords(day) ==
    {ArticleRecord(ArtTitled, day, summary) : summary \in {"ABSTRACT", "FETCH_ERROR"}}
        \cup {ArticleRecord(ArtNoLink, day, "NO_URL")}
FetchedLists(day) == SeqsUpTo(FetchedRecords(day), MaxArticles)

StoreInit ==
    /\ AggIdle
    /\ AppIdle
    /\ rq = NoRequest
    /\ sm = NoSummary
    /\ disp = NoDisplay
    /\ st = NoStore

\* The store frame after save_data(day, data) was called on directory fs.
Saved(s, fs, day, data) ==
    [s EXCEPT !.pc = "saved", !.day = day, !.data = data, !.before = fs, !.fresh = TRUE,
              !.saves = @ + 1]

\* app 192-194 and 223-224: `if daily_papers: save_data(d_str, daily_papers)`.
AppSave ==
    /\ st.saves < MaxSaves
    /\ \E day \in Days : \E data \in FetchedLists(day) :
          /\ data # <<>>
          /\ files' = save_data(files, day, data)
          /\ st' = Saved(st, files, day, data)
    /\ UNCHANGED <<aggVars, rq, app, ing, hist, sm, disp>>

\* verify_persistence 13-21: what was fetched is saved, whatever it is.
PersistenceSave ==
    /\ st.saves < MaxSaves
    /\ \E day \in Days : \E data \in FetchedLists(day) :
          /\ files' = save_data(files, day, data)
          /\ st' = Saved(st, files, day, data)
    /\ UNCHANGED <<aggVars, rq, app, ing, hist, sm, disp>>

\* load_data(date_str) (verify_persistence 30, verify_log_level 26, app 115).
StoreLoad ==
    /\ \E day \in Days :
          st' = [st EXCEPT !.pc = "loaded", !.lday = day, !.loaded = load_data(files, day)]
    /\ UNCHANGED <<aggVars, rq, appVars, sm, disp>>

\* app 109-120: the load loop over a range.
LoadLoop ==
    /\ \E start \in Days, end \in Days :
          /\ start <= end
          /\ st' = [st EXCEPT !.pc = "classified", !.fresh = FALSE,
                              !.start_date = start, !.end_date = end,
                              !.loaded_dates = LoadedDates(files, start, end),
                              !.missing_dates = MissingDates(files, start, end)]
    /\ UNCHANGED <<aggVars, rq, appVars, sm, disp>>

NextStore == AppSave \/ PersistenceSave \/ StoreLoad \/ LoadLoop

SpecStore == StoreInit /\ [][NextStore]_vars

\* C14: load_data(d) right after save_data(d, R) returns R (count, order, field
\* values) whatever the file of d held before, and the files of the other dates
\* are as before the save.
C14_SaveLoadRoundTrip ==
    /\ st.fresh => \A d \in Days \ {st.day} : files[d] = st.before[d]
    /\ (st.pc = "loaded" /\ st.fresh /\ st.lday = st.day) =>
           /\ st.loaded.found
           /\ st.loaded.data = st.data

\* C14 witness: a list read back from a file that held another list before.
C14_Witness ==
    /\ st.pc = "loaded"
    /\ st.fresh
    /\ st.lday = st.day
    /\ st.before[st.day].exists
    /\ st.before[st.day].text # <<>>
    /\ JsonLoad(st.before[st.day].text) # st.data
    /\ Len(st.data) = 2

\* C15: load_data returns the absent signal, not a list and not an error, for a
\* date without file, and a list, possibly empty, exactly when the file exists.
C15_AbsentSignal ==
    st.pc = "loaded" =>
        /\ st.loaded.found <=> files[st.lday].exists
        /\ ~files[st.lday].exists => st.loaded = [found |-> FALSE, data |-> <<>>]
        /\ files[st.lday].exists => st.loaded.data = JsonLoad(files[st.lday].text)

\* C15 witness: the absent signal for one date while the file of another date
\* holds a list.
C15_Witness ==
    /\ st.pc = "loaded"
    /\ ~st.loaded.found
    /\ \E d \in Days : files[d].exists

\* The number of times day occurs in a list of dates.
Occurrences(dates, day) == Cardinality({k \in 1 .. Len(dates) : dates[k] = day})

\* C16: the load loop puts every date of the range in exactly one of its two
\* lists, and in the loaded one exactly when the date has a cache file.
C16_RangePartition ==
    st.pc = "classified" =>
        \A d \in st.start_date .. st.end_date :
            /\ Occurrences(st.loaded_dates, d) + Occurrences(st.missing_dates, d) = 1
            /\ Occurrences(st.loaded_dates, d) = 1 <=> files[d].exists

\* C17: whatever ingestions, re-fetches and upvote refreshes were run, every
\* record of the cache file of a date has that date in its date field.
C17_RecordDateIsFileDate ==
    \A d \in Days :
        files[d].exists =>
            LET records == JsonLoad(files[d].text)
            IN  \A k \in 1 .. Len(records) : records[k].date = DateStr(d)

\* C17 witness: the file of the second date, ingested and then rewritten by an
\* upvote refresh.
C17_Witness ==
    /\ app.mode = "upvote"
    /\ hist.refreshed = 10
    /\ files[10].writes >= 2
    /\ Len(JsonLoad(files[10].text)) >= 1

\* C18: deduplicate_papers applied to its own output returns the same records.
C18_DedupIdempotent ==
    dd_done =>
        /\ deduplicate_papers(papers) = dd_out
        /\ Len(deduplicate_papers(dd_out)) = Len(dd_out)
        /\ SeqRange(deduplicate_papers(dd_out)) = SeqRange(dd_out)

\* C18 witness: an output of two records from an input with a duplicate.
C18_Witness ==
    /\ dd_done
    /\ Len(dd_out) = 2
    /\ Len(papers) = 3
    /\ deduplicate_papers(dd_out) = dd_out

\* C19: the output of deduplicate_papers has no two records with the same
\* identity key, has exactly one record for every non-empty identity key of the
\* input, holds only records of the input, and none without identity key.
C19_OneRecordPerKey ==
    dd_done =>
        /\ \A e, f \in 1 .. Len(dd_out) : PaperKey(dd_out[e]) = PaperKey(dd_out[f]) => e = f
        /\ \A k \in 1 .. Len(papers) :
              PaperKey(papers[k]) # "" =>
                  Cardinality({e \in 1 .. Len(dd_out) :
                                  PaperKey(dd_out[e]) = PaperKey(papers[k])}) = 1
        /\ \A e \in 1 .. Len(dd_out) : \E k \in 1 .. Len(papers) : papers[k] = dd_out[e]
        /\ \A e \in 1 .. Len(dd_out) : dd_out[e].id # "" \/ dd_out[e].title # ""

\* C19 witness: an input with a record without identity key and two records of
\* one key, reduced to one record.
C19_Witness ==
    /\ dd_done
    /\ Len(papers) = 3
    /\ Len(dd_out) = 1
    /\ \E k \in 1 .. 3 : papers[k].id = "" /\ papers[k].title = ""
    /\ \E k, m \in 1 .. 3 : k # m /\ PaperKey(papers[k]) # "" /\ PaperKey(papers[k]) = PaperKey(papers[m])

\* ------------------------------------------------------------------ the sorts of the display step
\* The records handed to a sort: two ids, the dates 01 .. 0n, two upvote texts.
SortPapers ==
    [id : {"a", "b"}, title : {"t"}, date : {DateStr(d) : d \in 1 .. MaxSortDays},
     upvotes : {<<5>>, <<1, 0>>}]

\* Records of one date for the sort by upvotes: the texts "5" and "10", a
\* non-numeric text, and records without the upvotes field.
UpvotePapers ==
    [id : {"a", "b"}, title : {"t"}, date : {DateStr(1)}, upvotes : UpvoteTexts]
        \cup [id : {"a", "b"}, title : {"t"}, date : {DateStr(1)}]

SortInit ==
    /\ AggIdle
    /\ AppIdle
    /\ rq = NoRequest
    /\ sm = NoSummary
    /\ st = NoStore
    /\ \/ \E L \in SeqsUpTo(SortPapers, MaxPapers) : disp = [NoDisplay EXCEPT !.papers = L]
       \/ \E L \in SeqsUpTo(UpvotePapers, MaxPapers) : disp = [NoDisplay EXCEPT !.papers = L]

\* app 241: sort_papers_by_date(papers, reverse=True); reverse is the function's parameter.
SortByDate ==
    /\ disp.pc = "idle"
    /\ \E reverse \in BOOLEAN :
          disp' = [disp EXCEPT !.pc = "by_date", !.reverse = reverse,
                               !.out = sort_papers_by_date(disp.papers, reverse)]
    /\ UNCHANGED <<aggVars, rq, appVars, sm, st>>

\* app 238: sort_papers_by_upvotes(papers, reverse=True); reverse is the function's parameter.
SortByUpvotes ==
    /\ disp.pc = "idle"
    /\ \E reverse \in BOOLEAN :
          disp' = [disp EXCEPT !.pc = "by_upvotes", !.reverse = reverse,
                               !.out = sort_papers_by_upvotes(disp.papers, reverse)]
    /\ UNCHANGED <<aggVars, rq, appVars, sm, st>>

NextSort == SortByDate \/ SortByUpvotes

SpecSort == SortInit /\ [][NextSort]_vars

\* How often a record occurs in a list, and the records of a list with a given date.
CountIn(L, x) == Cardinality({k \in 1 .. Len(L) : L[k] = x})
WithDate(L, date) == LET OfDate(x) == x.date = date IN SelectSeq(L, OfDate)

\* C20: sort_papers_by_date in its default order returns a permutation of its
\* input with non-increasing dates, the records of one date in input order.
C20_SortByDateDescendingStable ==
    (disp.pc = "by_date" /\ disp.reverse) =>
        /\ Len(disp.out) = Len(disp.papers)
        /\ \A k \in 1 .. Len(disp.papers) :
              CountIn(disp.out, disp.papers[k]) = CountIn(disp.papers, disp.papers[k])
        /\ \A r, q \in 1 .. Len(disp.out) : r < q => ~StrGt(disp.out[q].date, disp.out[r].date)
        /\ \A d \in 1 .. MaxSortDays :
              WithDate(disp.out, DateStr(d)) = WithDate(disp.papers, DateStr(d))

\* C20 witness: the dates 01, 03, 02 come out as 03, 02, 01.
C20_Witness ==
    /\ disp.pc = "by_date"
    /\ disp.reverse
    /\ Len(disp.papers) = 3
    /\ [k \in 1 .. 3 |-> disp.papers[k].date] = <<DateStr(1), DateStr(3), DateStr(2)>>
    /\ [k \in 1 .. 3 |-> disp.out[k].date] = <<DateStr(3), DateStr(2), DateStr(1)>>

\* The records of a list whose numeric upvotes are n.
WithUpvotes(L, n) == LET OfCount(x) == get_numeric_upvotes(x) = n IN SelectSeq(L, OfCount)

\* C21: sort_papers_by_upvotes in its default order returns a permutation of
\* its input with non-increasing numeric upvotes, a missing or non-numeric value
\* counting as 0, the records of equal numeric upvotes in input order.
C21_SortByUpvotesDescendingStable ==
    (disp.pc = "by_upvotes" /\ disp.reverse) =>
        /\ Len(disp.out) = Len(disp.papers)
        /\ \A k \in 1 .. Len(disp.papers) :
              CountIn(disp.out, disp.papers[k]) = CountIn(disp.papers, disp.papers[k])
        /\ \A r, q \in 1 .. Len(disp.out) :
              r < q => get_numeric_upvotes(disp.out[r]) >= get_numeric_upvotes(disp.out[q])
        /\ \A k \in 1 .. Len(disp.papers) :
              /\ "upvotes" \notin DOMAIN disp.papers[k] => get_numeric_upvotes(disp.papers[k]) = 0
              /\ ("upvotes" \in DOMAIN disp.papers[k] /\ ~IsDigits(disp.papers[k].upvotes))
                     => get_numeric_upvotes(disp.papers[k]) = 0
        /\ \A n \in {0, 5, 10} : WithUpvotes(disp.out, n) = WithUpvotes(disp.papers, n)

\* C21 witness: a record without upvotes, then "5", then "10" come out as 10, 5
\* and the one without; and a non-numeric one stays behind an equal one.
C21_Witness ==
    /\ disp.pc = "by_upvotes"
    /\ disp.reverse
    /\ Len(disp.papers) = 3
    /\ "upvotes" \notin DOMAIN disp.papers[1]
    /\ disp.out[3] = disp.papers[1]
    /\ "upvotes" \in DOMAIN disp.out[1] /\ disp.out[1].upvotes = <<1, 0>>
    /\ "upvotes" \in DOMAIN disp.out[2] /\ disp.out[2].upvotes = <<5>>

\* ---------------------------------------------------------------------------
\* filter_papers applied to short lists and queries.

\* Titles: "Scaling LLMs" shortened to "S LLMs", "ml", "sm" and the empty text.
FilterTitles == {<<13, 40, 11, 11, 12, 3>>, <<2, 1>>, <<3, 2>>, <<>>}
\* Summaries: "LM s" and the empty text.
FilterSummaries == {<<11, 12, 40, 3>>, <<>>}
FilterPapers ==
    [id : {"a"}, title : FilterTitles, summary : FilterSummaries]
        \cup [id : {"b"}, title : FilterTitles]
Queries == SeqsUpTo({1, 2, 11}, MaxQueryLen)

FilterInit ==
    /\ AggIdle
    /\ AppIdle
    /\ rq = NoRequest
    /\ sm = NoSummary
    /\ st = NoStore
    /\ \E L \in SeqsUpTo(FilterPapers, MaxFilterPapers), query \in Queries :
          disp = [NoDisplay EXCEPT !.papers = L, !.query = query]

\* app 244: filtered_papers = filter_papers(all_papers, search_query)
Filter ==
    /\ disp.pc = "idle"
    /\ disp' = [disp EXCEPT !.pc = "filtered", !.out = filter_papers(disp.papers, disp.query)]
    /\ UNCHANGED <<aggVars, rq, appVars, sm, st>>

NextFilter == Filter

SpecFilter == FilterInit /\ [][NextFilter]_vars

\* The text contains the query when case is ignored: at some offset every
\* character of the query equals the text's character up to case.
ContainsIgnoringCase(text, query) ==
    \E o \in 0 .. (Len(text) - Len(query)) :
        \A k \in 1 .. Len(query) : LowerChar(text[o + k]) = LowerChar(query[k])

MatchesQuery(p, query) ==
    \/ ContainsIgnoringCase(GetText(p, "title"), query)
    \/ ContainsIgnoringCase(GetText(p, "summary"), query)

\* C22: filter_papers(L, q) is the subsequence of L, in input order, of the
\* records whose title or summary contains q case-insensitively; an empty query
\* returns the whole input unchanged.
C22_FilterIsMatchingSubsequence ==
    disp.pc = "filtered" =>
        LET Matching(p) == MatchesQuery(p, disp.query)
        IN  /\ disp.out = SelectSeq(disp.papers, Matching)
            /\ disp.query = <<>> => disp.out = disp.papers

\* C22 witness: the query "llm" keeps the record titled "S LLMs" and drops the
\* one titled "ml" that stands before it.
C22_Witness ==
    /\ disp.pc = "filtered"
    /\ disp.query = <<1, 1, 2>>
    /\ Len(disp.papers) = 2
    /\ disp.papers[1].title = <<2, 1>>
    /\ disp.papers[1].id = "b"
    /\ disp.papers[2].title = <<13, 40, 11, 11, 12, 3>>
    /\ disp.out = <<disp.papers[2]>>

\* ---------------------------------------------------------------------------
\* request_with_retry with the duration of every backoff sleep.

\* Delays whose products delay * 2**i are exact floats of SigBits bits.
Delays == {0, 1}

BackoffInit ==
    /\ AggIdle
    /\ AppIdle
    /\ CallIdle
    /\ \E n \in 0 .. MaxRetries, delay \in Delays :
          rq = [NewRequest(DetailUrl(ArtTitled.href), n, "direct") EXCEPT !.delay = delay]

\* lines 110-132: one iteration, u the draw of random.uniform(0, 1).
BackoffAttempt ==
    /\ rq.status = "loop"
    /\ rq.i < rq.retries
    /\ \E out \in GetOutcomes(rq.url), u \in RandomDraws :
          rq' = RequestIterationTimed(rq, RequestIteration(rq, out), u)
    /\ UNCHANGED <<aggVars, st, disp>>

NextBackoff ==
    \/ BackoffAttempt /\ UNCHANGED <<appVars, sm>>
    \/ RequestExhausted /\ UNCHANGED <<appVars, sm>>

SpecBackoff == BackoffInit /\ [][NextBackoff]_vars

\* C23 as stated: the wait after a 429 on attempt i is at least d * 2^i seconds
\* and less than d * 2^i + 1 seconds.
C23_WaitBelowNextSecond ==
    \A k \in 1 .. Len(rq.slept) :
        /\ rq.slept[k].wait_time >= Seconds(rq.delay * Pow2(rq.slept[k].i))
        /\ rq.slept[k].wait_time < Seconds(rq.delay * Pow2(rq.slept[k].i) + 1)

\* C23 amended: the wait after a 429 on attempt i is at least d * 2^i seconds
\* and at most d * 2^i + 1 seconds, so that the lower bound doubles with each
\* successive attempt.
C23_WaitWithinNextSecond ==
    \A k \in 1 .. Len(rq.slept) :
        /\ rq.slept[k].wait_time >= Seconds(rq.delay * Pow2(rq.slept[k].i))
        /\ rq.slept[k].wait_time <= Seconds(rq.delay * Pow2(rq.slept[k].i) + 1)
        /\ k > 1 => Seconds(rq.delay * Pow2(rq.slept[k].i))
                        = 2 * Seconds(rq.delay * Pow2(rq.slept[k - 1].i))

\* C23 witness: two 429 responses in a row with delay 1; the second wait lies
\* strictly between 2 and 3 seconds.
C23_Witness ==
    /\ rq.delay = 1
    /\ Len(rq.slept) = 2
    /\ rq.slept[2].i = 1
    /\ rq.slept[2].wait_time > Seconds(2)
    /\ rq.slept[2].wait_time < Seconds(3)

\* Comparison of two fractions.
FractionLess(a, b) == a.num * b.den < b.num * a.den
FractionInUnit(a) == a.num >= 0 /\ a.num <= a.den

\* The calls made so far rise strictly and stay within [0, 1].
ProgressRises(calls) ==
    /\ \A k \in 1 .. Len(calls) : FractionInUnit(calls[k])
    /\ \A k \in 1 .. (Len(calls) - 1) : FractionLess(calls[k], calls[k + 1])

\* C24: during an ingestion of n listings with a progress callback, the
\* callback is called once for every listing gone through, untitled ones
\* included; the fractions passed rise strictly and stay within [0, 1]; and the
\* call that ends the ingestion passes 1.0.
C24_ProgressPerListing ==
    [][(ing.active /\ ing.callback) =>
          /\ Len(hist.progress) = ing.i
          /\ ProgressRises(hist.progress)
          /\ ing'.active => /\ ing'.i = ing.i + 1
                            /\ Len(hist'.progress) = Len(hist.progress) + 1
          /\ ~ing'.active =>
                /\ ing.i = Len(ing.articles)
                /\ Len(hist'.progress) = Len(ing.articles) + 1
                /\ ProgressRises(hist'.progress)
                /\ hist'.progress[Len(hist'.progress)].num
                       = hist'.progress[Len(hist'.progress)].den]_vars

\* C24 witness: an ingestion of three listings, the first without title, has
\* ended after the calls 0, 1/3, 2/3 and 1.0.
C24_Witness ==
    /\ ~ing.active
    /\ Len(hist.progress) = MaxBlocks + 1
    /\ hist.progress[2] = [num |-> 1, den |-> MaxBlocks]
    /\ Len(load_data(files, 9).data) = MaxBlocks - 1

\* ---------------------------------------------------------------------------
\* The ingestion loops on a filesystem whose writes can fail.
NextSave ==
    \/ PressFetchMissing \/ PressRefetch
    \/ BatchSuccess
    \/ ListingRaised \/ ListingNone \/ ListingParsed
    \/ ArticleLoop \/ FetchReturned \/ SaveFailed

SpecSave == Init /\ [][NextSave]_vars

\* C25: when save_data fails with a filesystem error during a batch ingestion
\* or re-fetch, the error is shown, the batch stops at that date (no later date
\* is started) and the batch does not report success.
C25_SaveFailureStopsBatch ==
    hist.unsaved # {} =>
        /\ app.phase = "idle"
        /\ app.report = "error"
        /\ ~ing.active
        /\ hist.unsaved = {hist.day}
        /\ BatchDates(app)[app.k + 1] = hist.day
        /\ \A k \in (app.k + 2) .. Len(BatchDates(app)) : BatchDates(app)[k] \notin hist.attempted

\* C25 witness: a re-fetch over two dates whose first save failed, the second
\* date never started.
C25_Witness ==
    /\ app.mode = "refetch"
    /\ Len(BatchDates(app)) = 2
    /\ hist.unsaved = {BatchDates(app)[1]}
    /\ hist.attempted = {BatchDates(app)[1]}
    /\ app.report = "error"

\* The identity keys of a list in the order of their first occurrence.
RECURSIVE FirstKeys(_, _)
FirstKeys(L, seen) ==
    IF L = <<>> THEN <<>>
    ELSE LET key == PaperKey(Head(L))
         IN  IF key = "" \/ key \in seen THEN FirstKeys(Tail(L), seen)
             ELSE <<key>> \o FirstKeys(Tail(L), seen \cup {key})

\* C26: the output of deduplicate_papers lists the identity keys in the order
\* of their first occurrence in the input; a record that replaced an earlier
\* one stands where the key first occurred.
C26_FirstOccurrenceOrder ==
    dd_done => [e \in 1 .. Len(dd_out) |-> PaperKey(dd_out[e])] = FirstKeys(papers, {})

\* C26 witness: the third record replaces the first one of its key and stands
\* before the record of the second key.
C26_Witness ==
    /\ dd_done
    /\ Len(papers) = 3
    /\ PaperKey(papers[1]) = PaperKey(papers[3])
    /\ PaperKey(papers[2]) # PaperKey(papers[1])
    /\ papers[3] # papers[1]
    /\ dd_out = <<papers[3], papers[2]>>

====
